---------------------------- MODULE Spec2Model ----------------------------
(***************************************************************************)
(* Model of the recording-to-callback pipeline of valeri-audio:            *)
(*   controller  handleRecordingStatus      (recordingController)          *)
(*   orchestrator processRecording          (recordingService)             *)
(*   adapter     RecordingProcessorService  (recordingProcessorService.ts) *)
(*   store       storeRecording / storeTranscriptionAndSummary             *)
(*   speech      generateSpeech             (ttsService)                   *)
(* Every remote call is a suspension point: the position of a run names    *)
(* the request it is waiting for, and one action models the continuation   *)
(* that runs when the response arrives, up to the next suspension point.   *)
(* Specifications:                                                         *)
(*   Spec            the server handling notifications                     *)
(*   FairSpec        Spec, every remote call answered                      *)
(*   SpecConcurrent  runs in flight for distinct recording identifiers     *)
(*   SpecServices    the exported functions of the services called         *)
(*                   directly                                              *)
(***************************************************************************)
EXTENDS Integers, Sequences, FiniteSets, TLC

(***************************************************************************)
(* Bounds of the model.                                                    *)
(***************************************************************************)
\* number of completed-recording notifications the server receives
NumRuns ==
  1

(***************************************************************************)
(* Program constants.                                                      *)
(***************************************************************************)
\* transcribeAudio: const maxRetries = 5
TranscribeMaxRetries ==
  5

\* generateSummary: const maxRetries = 3
SummaryMaxRetries ==
  3

\* transcribeAudio: Math.min(1000 * Math.pow(2, retryCount), 30000)
TranscribeBaseDelay ==
  1000

TranscribeDelayCap ==
  30000

\* generateSummary: Math.min(1000 * Math.pow(2, retryCount), 10000)
SummaryBaseDelay ==
  1000

SummaryDelayCap ==
  10000

\* isQuotaError: apiError.response?.status === 429
QuotaStatus ==
  429

(***************************************************************************)
(* Strings.  A message that isQuotaError inspects is a sequence of         *)
(* characters, so that toLowerCase() and includes() are computed.          *)
(***************************************************************************)
MsgTimeout ==
  <<
    "t", "i", "m", "e", "o", "u", "t" >>

MsgHangUp ==
  <<
    "s", "o", "c", "k", "e", "t", " ", "h", "a", "n", "g", " ", "u", "p" >>

MsgRateLimit ==
  <<
    "R", "a", "t", "e", " ", "L", "i", "m", "i", "t", " ", "h", "i", "t" >>

MsgQuota ==
  <<
    "Q", "u", "o", "t", "a", " ", "e", "x", "c", "e", "e", "d", "e", "d" >>

MsgBilling ==
  <<
    "B", "i", "l", "l", "i", "n", "g", " ", "i", "s", "s", "u", "e" >>

MsgFailed ==
  <<
    "R", "e", "q", "u", "e", "s", "t", " ", "f", "a", "i", "l", "e", "d" >>

PrefixQuotaTranscribe ==
  <<
    "O", "p", "e", "n", "A", "I", " ", "A", "P", "I", " ", "q", "u", "o",
    "t", "a", " ", "e", "x", "c", "e", "e", "d", "e", "d", ".", " ", "P",
    "l", "e", "a", "s", "e", " ", "c", "h", "e", "c", "k", " ", "y", "o",
    "u", "r", " ", "b", "i", "l", "l", "i", "n", "g", " ", "d", "e", "t",
    "a", "i", "l", "s", ":", " " >>

PrefixQuotaSummary ==
  <<
    "O", "p", "e", "n", "A", "I", " ", "A", "P", "I", " ", "q", "u", "o",
    "t", "a", " ", "e", "x", "c", "e", "e", "d", "e", "d", " ", "w", "h",
    "e", "n", " ", "g", "e", "n", "e", "r", "a", "t", "i", "n", "g", " ",
    "s", "u", "m", "m", "a", "r", "y", ".", " ", "P", "l", "e", "a", "s",
    "e", " ", "c", "h", "e", "c", "k", " ", "y", "o", "u", "r", " ", "b",
    "i", "l", "l", "i", "n", "g", " ", "d", "e", "t", "a", "i", "l", "s",
    ":", " " >>

MsgQuotaCombined ==
  <<
    "O", "p", "e", "n", "A", "I", " ", "A", "P", "I", " ", "q", "u", "o",
    "t", "a", " ", "e", "x", "c", "e", "e", "d", "e", "d", ".", " ", "P",
    "l", "e", "a", "s", "e", " ", "c", "h", "e", "c", "k", " ", "y", "o",
    "u", "r", " ", "b", "i", "l", "l", "i", "n", "g", " ", "d", "e", "t",
    "a", "i", "l", "s", " ", "o", "r", " ", "t", "r", "y", " ", "a", "g",
    "a", "i", "n", " ", "l", "a", "t", "e", "r", "." >>

PrefixTranscriptionFailed ==
  <<
    "T", "r", "a", "n", "s", "c", "r", "i", "p", "t", "i", "o", "n", " ",
    "f", "a", "i", "l", "e", "d", " ", "a", "f", "t", "e", "r", " " >>

SuffixAttempts ==
  <<
    " ", "a", "t", "t", "e", "m", "p", "t", "s", ":", " " >>

StrQuota ==
  <<
    "q", "u", "o", "t", "a" >>

StrBilling ==
  <<
    "b", "i", "l", "l", "i", "n", "g" >>

StrRateLimit ==
  <<
    "r", "a", "t", "e", " ", "l", "i", "m", "i", "t" >>


(***************************************************************************)
(* isQuotaError and the errors it classifies.                              *)
(***************************************************************************)
UpperCase ==
  << "A", "B", "C", "D", "E", "F", "G", "H", "I", "J", "K", "L", "M",
     "N", "O", "P", "Q", "R", "S", "T", "U", "V", "W", "X", "Y", "Z" >>

LowerCase ==
  << "a", "b", "c", "d", "e", "f", "g", "h", "i", "j", "k", "l", "m",
     "n", "o", "p", "q", "r", "s", "t", "u", "v", "w", "x", "y", "z" >>

\* String.prototype.toLowerCase
ToLowerCase(s) ==
  [i \in 1..Len(s) |->
     IF \E k \in 1..26 : UpperCase[k] = s[i]
       THEN LowerCase[CHOOSE k \in 1..26 : UpperCase[k] = s[i]]
       ELSE s[i]]

\* String.prototype.includes
Includes(s, sub) ==
  \E i \in 1..(Len(s) - Len(sub) + 1) : SubSeq(s, i, i + Len(sub) - 1) = sub

\* An ApiError without a response (response?.… is undefined): status 0 and
\* empty code and type stand for the absent fields.
NoResponse ==
  [status |-> 0, code |-> "", type |-> ""]

\* new Error(message): an Error that carries no response
NewError(message) ==
  [response |-> NoResponse, message |-> message]

\* The errors a transcription or completion request is made to fail with.
ErrTimeout == NewError(MsgTimeout)
ErrHangUp == [response |-> [status |-> 500, code |-> "server_error", type |-> "server_error"], message |-> MsgHangUp]
ErrQuotaCode == [response |-> [status |-> 400, code |-> "insufficient_quota", type |-> ""], message |-> MsgFailed]
ErrQuotaType == [response |-> [status |-> 403, code |-> "", type |-> "insufficient_quota"], message |-> MsgFailed]
Err429 == [response |-> [status |-> 429, code |-> "", type |-> ""], message |-> MsgFailed]
ErrRateLimit == [response |-> [status |-> 500, code |-> "", type |-> ""], message |-> MsgRateLimit]
ErrQuotaMsg == NewError(MsgQuota)
ErrBillingMsg == NewError(MsgBilling)

ApiErrors ==
  { ErrTimeout, ErrHangUp, ErrQuotaCode, ErrQuotaType, Err429, ErrRateLimit,
    ErrQuotaMsg, ErrBillingMsg }

isQuotaError_caseSensitive(error) ==
  IF error.response.code = "insufficient_quota"
       \/ error.response.type = "insufficient_quota"
    THEN TRUE
    ELSE IF error.response.status = QuotaStatus
      THEN TRUE
      ELSE \/ Includes(error.message, StrQuota)
           \/ Includes(error.message, StrBilling)
           \/ Includes(error.message, StrRateLimit)

\* RecordingProcessorService.isQuotaError
isQuotaError(error) ==
  IF error.response.code = "insufficient_quota"
       \/ error.response.type = "insufficient_quota"
    THEN TRUE
    ELSE IF error.response.status = QuotaStatus
      THEN TRUE
      ELSE LET errorMessage == ToLowerCase(error.message)
           IN  \/ Includes(errorMessage, StrQuota)
               \/ Includes(errorMessage, StrBilling)
               \/ Includes(errorMessage, StrRateLimit)

Min(a, b) == IF a < b THEN a ELSE b

\* transcribeAudio: Math.min(1000 * Math.pow(2, retryCount), 30000)
TranscribeDelayMs(retryCount) ==
  Min(TranscribeBaseDelay * 2^retryCount, TranscribeDelayCap)

\* generateSummary: Math.min(1000 * Math.pow(2, retryCount), 10000)
SummaryDelayMs(retryCount) ==
  Min(SummaryBaseDelay * 2^retryCount, SummaryDelayCap)

Digits ==
  << "0", "1", "2", "3", "4", "5", "6", "7", "8", "9" >>

IsDigit(c) == \E k \in 1..10 : Digits[k] = c

DigitValue(c) == (CHOOSE k \in 1..10 : Digits[k] = c) - 1

\* `${maxRetries}` for a one-digit maxRetries
NumberToString(n) == << Digits[n + 1] >>

NaN ==
  [nan |-> TRUE, value |-> 0]

Number(n) ==
  [nan |-> FALSE, value |-> n]

RECURSIVE ParseDigits(_, _, _)
\* the value of the longest prefix of digits of s from position i on
ParseDigits(s, i, acc) ==
  IF i > Len(s) \/ ~IsDigit(s[i])
    THEN acc
    ELSE ParseDigits(s, i + 1, 10 * acc + DigitValue(s[i]))

\* parseInt(duration): an absent field (undefined) and the empty string both
\* parse to NaN, as does any text that does not start with a number.
parseInt(s) ==
  LET neg == Len(s) > 0 /\ s[1] = "-"
      first == IF Len(s) > 0 /\ (s[1] = "-" \/ s[1] = "+") THEN 2 ELSE 1
  IN  IF first > Len(s) \/ ~IsDigit(s[first])
        THEN NaN
        ELSE Number(IF neg THEN 0 - ParseDigits(s, first, 0)
                           ELSE ParseDigits(s, first, 0))

(***************************************************************************)
(* Values.  A JavaScript string that the program builds or tests is a      *)
(* sequence of pieces: '' is the empty sequence and null is Null.          *)
(***************************************************************************)
EmptyString ==
  << >>

Null ==
  << "null" >>

Truthy(v) == v # EmptyString /\ v # Null

\* a || b
OrElse(a, b) == IF Truthy(a) THEN a ELSE b

\* supabase.storage.from('recordings').getPublicUrl(fileName).data.publicUrl
getPublicUrl(fileName) ==
  << "https://supabase/storage/v1/object/public/recordings/" >> \o fileName

\* storeRecording: `${metadata.recording_sid}.mp3`
RecordingFileName(recordingSid) ==
  << recordingSid, ".mp3" >>

\* storeTranscriptionAndSummary: `${recordingSid}_transcript.txt`
TranscriptFileName(recordingSid) ==
  << recordingSid, "_transcript.txt" >>

\* generateSpeech: `${recordingSid}_summary_speech.mp3`
SpeechFileName(recordingSid) ==
  << recordingSid, "_summary_speech.mp3" >>

\* generateSummary: response.choices[0]?.message?.content || 'No summary generated'
NoSummaryGenerated ==
  << "No summary generated" >>

\* generateSummary: the string returned when all attempts failed
SummaryFallback ==
  << "Error generating summary. Please try again later." >>

SummaryText_noSummary(summary) ==
  << "Hello, here is a summary of your recent call. " >>
     \o << " Thank you for using our service. Goodbye." >>

\* processRecording: the text handed to generateSpeech
SummaryText(summary) ==
  << "Hello, here is a summary of your recent call. " >> \o summary
     \o << " Thank you for using our service. Goodbye." >>

(***************************************************************************)
(* Inputs: the notifications Twilio posts and the outcomes of the remote   *)
(* calls.                                                                  *)
(***************************************************************************)
\* req.body of POST /recording-status; an absent field is '' (falsy, and
\* parseInt gives NaN for it as for undefined)
WellFormedBodies ==
  { [RecordingUrl |-> "https://api.twilio.com/Recordings/RE1", RecordingSid |-> "RE1",
     CallSid |-> "CA1", RecordingDuration |-> << "1", "2" >>],
    [RecordingUrl |-> "https://api.twilio.com/Recordings/RE2", RecordingSid |-> "RE2",
     CallSid |-> "CA2", RecordingDuration |-> << >>] }

MalformedBodies ==
  { [RecordingUrl |-> "", RecordingSid |-> "RE1", CallSid |-> "CA1",
     RecordingDuration |-> << "1", "2" >>],
    [RecordingUrl |-> "https://api.twilio.com/Recordings/RE1", RecordingSid |-> "",
     CallSid |-> "CA1", RecordingDuration |-> << "1", "2" >>],
    [RecordingUrl |-> "https://api.twilio.com/Recordings/RE1", RecordingSid |-> "RE1",
     CallSid |-> "", RecordingDuration |-> << "1", "2" >>] }

Bodies == WellFormedBodies \cup MalformedBodies

NoBody ==
  [RecordingUrl |-> "", RecordingSid |-> "", CallSid |-> "", RecordingDuration |-> << >>]

\* the outcomes of fetch(`${recordingUrl}.mp3`): a response, or a rejection
FetchOutcomes ==
  { [rejects |-> FALSE, status |-> 200, text |-> "200 OK"],
    [rejects |-> FALSE, status |-> 404, text |-> "404 Not Found"],
    [rejects |-> TRUE, status |-> 0, text |-> "ECONNRESET"] }

ResponseOk_unchecked(status) == status >= 200

\* Response.ok
ResponseOk(status) == status >= 200 /\ status <= 299

\* { error } of a Supabase storage or table request: null, or an error
SupabaseErrors ==
  { Null, << "fetch failed" >> }

\* response.data.text of the transcription request
Transcriptions ==
  { << "hello world" >> }

\* response.choices[0]?.message?.content of the completion request
Contents ==
  { << "Quick call about hello world." >>, EmptyString }

\* call.from of twilioClient.calls(callSid).fetch()
CallerOf(callSid) ==
  IF callSid = "CA1" THEN "+15550001" ELSE "+15550002"

\* env.twilio.phoneNumber
TwilioPhoneNumber ==
  "+15559999"

NoError ==
  NewError(EmptyString)

\* no response of the download yet
NoFetch ==
  [rejects |-> FALSE, status |-> 0, text |-> ""]

NoCall ==
  [to |-> "", from |-> "", play |-> EmptyString]

NoCounts ==
  [fetch |-> 0, upload |-> 0, insert |-> 0, transcribe |-> 0, summarize |-> 0,
   tsUpload |-> 0, update |-> 0, lookup |-> 0, speech |-> 0, speechUpload |-> 0,
   call |-> 0]

(***************************************************************************)
(* State.                                                                  *)
(*   run[r]  one request to POST /recording-status and the pipeline run it *)
(*           starts:                                                       *)
(*     pc      where handleRecordingStatus / processRecording is           *)
(*             suspended, or how it ended                                  *)
(*     st      where storeRecording (first task of Promise.all) is         *)
(*     tr      where recordingProcessorService.processRecording (second    *)
(*             task) is                                                    *)
(*     n       the requests the run has issued, by kind; for the two retry *)
(*             loops, the requests of the loop in progress (a loop that    *)
(*             ends with a successful request leaves 0)                    *)
(*     fetched, swallowed   the response of the download, and the step     *)
(*             whose error the inner catch logged                          *)
(*     firstDone   the task of Promise.all that completed first            *)
(*     entry   "" for a request to the route; the name of the exported     *)
(*             function when run[r] is a direct call of it                 *)
(*     quotaAvailable   the value checkApiQuota returned                   *)
(*     speechText   the text handed to generateSpeech                      *)
(*   table   the rows of the `recordings` table, in insertion order        *)
(*   bucket  the names of the objects of the `recordings` bucket           *)
(***************************************************************************)
VARIABLES run, table, bucket

vars == << run, table, bucket >>

\* the requests received
Runs == DOMAIN run

InitRun ==
  [pc |-> "idle", st |-> "none", tr |-> "none", body |-> NoBody,
   status |-> 0, error |-> NoError, stError |-> NoError, procError |-> NoError,
   retryCount |-> 0, delays |-> << >>, summaryDelays |-> << >>,
   transcription |-> EmptyString, summary |-> EmptyString,
   callerNumber |-> "", speechUrl |-> EmptyString, call |-> NoCall,
   swallowed |-> "", fetched |-> NoFetch, firstDone |-> "",
   entry |-> "", quotaAvailable |-> TRUE, speechText |-> EmptyString,
   n |-> NoCounts]

Init ==
  /\ run = [r \in 1..NumRuns |-> InitRun]
  /\ table = << >>
  /\ bucket = {}

(***************************************************************************)
(* How a run ends.                                                         *)
(***************************************************************************)
\* processRecording returns; handleRecordingStatus sends 200
Resolve(s) ==
  [s EXCEPT !.pc = "resolved", !.status = 200]

\* processRecording's outer catch logs and rethrows e; the catch of
\* handleRecordingStatus sends 500
Reject(s, e) ==
  [s EXCEPT !.pc = "rejected", !.error = e,
            !.status = IF s.entry = "" THEN 500 ELSE @]

CatchSpeechError_rethrow(s, step) ==
  [s EXCEPT !.pc = "rejected", !.swallowed = step, !.status = 500]

\* processRecording's inner catch (around generateSpeech and calls.create)
\* logs the error and falls through to the end of the function
CatchSpeechError(s, step) ==
  Resolve([s EXCEPT !.swallowed = step])

PromiseAll_race(st, tr) ==
  IF st = "failed" \/ tr = "failed" THEN "rejected"
  ELSE IF st = "done" \/ tr = "done" THEN "fulfilled"
  ELSE "pending"

\* the state of Promise.all([storeRecording(..), processRecording(..)])
PromiseAll(st, tr) ==
  IF st = "failed" \/ tr = "failed" THEN "rejected"
  ELSE IF st = "done" /\ tr = "done" THEN "fulfilled"
  ELSE "pending"

AwaitAll_allSettled(s) ==
  IF s.pc # "join" THEN s
  ELSE IF s.st \in {"done", "failed"} /\ s.tr \in {"done", "failed"}
    THEN [s EXCEPT !.pc = "tsUpload", !.n.tsUpload = @ + 1]
  ELSE s

\* the continuation of `await Promise.all(..)`: it throws the error of the
\* task that failed first, or calls storeTranscriptionAndSummary, which
\* issues the upload of the transcript
AwaitAll(s) ==
  IF s.pc # "join" THEN s
  ELSE IF PromiseAll(s.st, s.tr) = "rejected"
    THEN Reject(s, IF s.st = "failed" THEN s.stError ELSE s.procError)
  ELSE IF PromiseAll(s.st, s.tr) = "fulfilled"
    THEN [s EXCEPT !.pc = "tsUpload", !.n.tsUpload = @ + 1]
  ELSE s

\* the metadata processRecording passes to storeRecording
Metadata(body) ==
  [recording_sid |-> body.RecordingSid,
   call_sid |-> body.CallSid,
   duration |-> parseInt(body.RecordingDuration),
   audio_url |-> << body.RecordingUrl >>,
   transcript_url |-> EmptyString,
   audio_summary |-> EmptyString]

InsertedRow_sourceUrl(metadata, audio_url) ==
  [recording_sid |-> metadata.recording_sid,
   call_sid |-> metadata.call_sid,
   duration |-> metadata.duration,
   audio_summary |-> OrElse(metadata.audio_summary, Null),
   audio_url |-> metadata.audio_url,
   transcript_url |-> OrElse(metadata.transcript_url, Null)]

InsertedRow_noAudioUrl(metadata, audio_url) ==
  [recording_sid |-> metadata.recording_sid,
   call_sid |-> metadata.call_sid,
   duration |-> metadata.duration,
   audio_summary |-> OrElse(metadata.audio_summary, Null),
   audio_url |-> Null,
   transcript_url |-> OrElse(metadata.transcript_url, Null)]

\* the row storeRecording inserts (created_at left out)
InsertedRow(metadata, audio_url) ==
  [recording_sid |-> metadata.recording_sid,
   call_sid |-> metadata.call_sid,
   duration |-> metadata.duration,
   audio_summary |-> OrElse(metadata.audio_summary, Null),
   audio_url |-> audio_url,
   transcript_url |-> OrElse(metadata.transcript_url, Null)]

UpdateRows_noFilter(rows, recordingSid, transcript_url, summary) ==
  [i \in DOMAIN rows |->
     [rows[i] EXCEPT !.transcript_url = transcript_url,
                     !.audio_summary = summary]]

UpdateRows_firstWins(rows, recordingSid, transcript_url, summary) ==
  [i \in DOMAIN rows |->
     IF rows[i].recording_sid = recordingSid /\ rows[i].transcript_url = Null
       THEN [rows[i] EXCEPT !.transcript_url = transcript_url,
                            !.audio_summary = summary]
       ELSE rows[i]]

UpdateRows_insert(rows, recordingSid, transcript_url, summary) ==
  Append(rows,
    [recording_sid |-> recordingSid,
     call_sid |-> Null,
     duration |-> NaN,
     audio_summary |-> summary,
     audio_url |-> getPublicUrl(RecordingFileName(recordingSid)),
     transcript_url |-> transcript_url])

UpdateRows_wrongColumn(rows, recordingSid, transcript_url, summary) ==
  [i \in DOMAIN rows |->
     IF rows[i].call_sid = recordingSid
       THEN [rows[i] EXCEPT !.transcript_url = transcript_url,
                            !.audio_summary = summary]
       ELSE rows[i]]

\* .update({transcript_url, audio_summary: summary}).eq('recording_sid', recordingSid)
UpdateRows(rows, recordingSid, transcript_url, summary) ==
  [i \in DOMAIN rows |->
     IF rows[i].recording_sid = recordingSid
       THEN [rows[i] EXCEPT !.transcript_url = transcript_url,
                            !.audio_summary = summary]
       ELSE rows[i]]

\* transcribeAudio: the error thrown for a quota error
TranscribeQuotaError(apiError) ==
  NewError(PrefixQuotaTranscribe \o apiError.message)

\* transcribeAudio: the error thrown when all attempts failed
TranscriptionFailedError(apiError) ==
  NewError(PrefixTranscriptionFailed \o NumberToString(TranscribeMaxRetries)
             \o SuffixAttempts \o apiError.message)

\* generateSummary: the error thrown for a quota error
SummaryQuotaError(apiError) ==
  NewError(PrefixQuotaSummary \o apiError.message)

\* the errors isQuotaError is applied to: those of the requests, and those
\* transcribeAudio and generateSummary throw to processRecording's catch
ClassifiedErrors ==
  ApiErrors \cup { TranscribeQuotaError(e) : e \in ApiErrors }
            \cup { TranscriptionFailedError(e) : e \in ApiErrors }
            \cup { SummaryQuotaError(e) : e \in ApiErrors }

\* isQuotaError, tabulated over the errors it is applied to
QuotaClass ==
  [e \in ClassifiedErrors |-> isQuotaError(e)]

processRecordingCatch_alwaysQuota(error) ==
  NewError(MsgQuotaCombined)

\* RecordingProcessorService.processRecording: its catch turns a quota
\* error into the combined quota error and rethrows any other error
processRecordingCatch(error) ==
  IF QuotaClass[error] THEN NewError(MsgQuotaCombined) ELSE error

\* a task of Promise.all completes with its value
TaskDone(s, task) ==
  AwaitAll([s EXCEPT !.firstDone = IF @ = "" THEN task ELSE @])

\* the second task of Promise.all fails with the error the adapter throws
ProcessingFails(s, error) ==
  AwaitAll([s EXCEPT !.tr = "failed", !.procError = processRecordingCatch(error)])

\* the first task of Promise.all fails with the error storeRecording throws
StoringFails(s, error) ==
  AwaitAll([s EXCEPT !.st = "failed", !.stError = error])

(***************************************************************************)
(* handleRecordingStatus                                                   *)
(***************************************************************************)
handleRecordingStatus_noValidation(r, body) ==
  /\ run[r].pc = "idle"
  /\ r > 1 => run[r - 1].pc # "idle"
  /\ run' = [run EXCEPT ![r] =
       [@ EXCEPT !.pc = "fetch", !.body = body, !.n.fetch = @ + 1]]
  /\ UNCHANGED << table, bucket >>

\* POST /recording-status arrives with `body`: 400 when a required field is
\* missing, else processRecording is called and issues the download
handleRecordingStatus(r, body) ==
  /\ run[r].pc = "idle"
  /\ r > 1 => run[r - 1].pc # "idle"
  /\ run' = [run EXCEPT ![r] =
       IF body.RecordingUrl = "" \/ body.RecordingSid = "" \/ body.CallSid = ""
         THEN [@ EXCEPT !.pc = "invalid", !.status = 400, !.body = body]
         ELSE [@ EXCEPT !.pc = "fetch", !.body = body, !.n.fetch = @ + 1]]
  /\ UNCHANGED << table, bucket >>

(***************************************************************************)
(* processRecording, step 1: download                                      *)
(***************************************************************************)
\* new Error(`Failed to download recording: ${status} ${statusText}`)
DownloadError(out) ==
  NewError(<< "Failed to download recording: ", out.text >>)

\* what follows `await fetch(..)`
AfterFetch(s, out) ==
  IF out.rejects
    THEN Reject([s EXCEPT !.fetched = out], NewError(<< out.text >>))
  ELSE IF ~ResponseOk(out.status)
    THEN Reject([s EXCEPT !.fetched = out], DownloadError(out))
  ELSE [s EXCEPT !.fetched = out, !.pc = "arrayBuffer"]

processRecording_fetch(r, out) ==
  /\ run[r].pc = "fetch"
  /\ run' = [run EXCEPT ![r] = AfterFetch(@, out)]
  /\ UNCHANGED << table, bucket >>

\* `await recordingResponse.arrayBuffer()`, then both tasks of Promise.all
\* are started: storeRecording issues the upload, transcribeAudio its first
\* request
processRecording_arrayBuffer(r, ok) ==
  /\ run[r].pc = "arrayBuffer"
  /\ run' = [run EXCEPT ![r] =
       IF ~ok
         THEN Reject(@, NewError(<< "Premature close" >>))
         ELSE [@ EXCEPT !.pc = "join",
                        !.st = "upload", !.n.upload = @ + 1,
                        !.tr = "transcribe", !.retryCount = 0,
                        !.n.transcribe = @ + 1]]
  /\ UNCHANGED << table, bucket >>

(***************************************************************************)
(* storeRecording (first task of step 2)                                   *)
(***************************************************************************)
storeRecording_upload(r, uploadError) ==
  /\ run[r].st = "upload"
  /\ IF uploadError # Null
       THEN /\ run' = [run EXCEPT ![r] = StoringFails(@,
                         NewError(<< "Failed to upload recording: " >> \o uploadError))]
            /\ UNCHANGED bucket
       ELSE /\ bucket' = bucket \cup { RecordingFileName(run[r].body.RecordingSid) }
            /\ run' = [run EXCEPT ![r] = [@ EXCEPT !.st = "insert", !.n.insert = @ + 1]]
  /\ UNCHANGED table

storeRecording_insert(r, metadataError) ==
  /\ run[r].st = "insert"
  /\ IF metadataError # Null
       THEN /\ run' = [run EXCEPT ![r] = StoringFails(@,
                         NewError(<< "Failed to store metadata: " >> \o metadataError))]
            /\ UNCHANGED table
       ELSE /\ table' = Append(table,
                  InsertedRow(Metadata(run[r].body),
                     getPublicUrl(RecordingFileName(run[r].body.RecordingSid))))
            /\ run' = [run EXCEPT ![r] = TaskDone([@ EXCEPT !.st = "done"], "store")]
  /\ UNCHANGED bucket

(***************************************************************************)
(* RecordingProcessorService (second task of step 2)                       *)
(***************************************************************************)
ApiOutcomes(values) ==
  [ok : {TRUE}, value : values, error : {NoError}]
    \cup [ok : {FALSE}, value : {EmptyString}, error : ApiErrors]

transcribeAudio_catch_unbounded(s, apiError) ==
  IF QuotaClass[apiError]
    THEN ProcessingFails(s, TranscribeQuotaError(apiError))
  ELSE [s EXCEPT !.tr = "delay"]

transcribeAudio_catch_offByOne(s, apiError) ==
  IF QuotaClass[apiError]
    THEN ProcessingFails(s, TranscribeQuotaError(apiError))
  ELSE IF s.retryCount + 1 > TranscribeMaxRetries
    THEN ProcessingFails([s EXCEPT !.retryCount = @ + 1],
           TranscriptionFailedError(apiError))
  ELSE [s EXCEPT !.retryCount = @ + 1, !.tr = "delay",
                 !.delays = Append(@, TranscribeDelayMs(s.retryCount + 1))]

\* the catch block of transcribeAudio's loop
transcribeAudio_catch(s, apiError) ==
  IF QuotaClass[apiError]
    THEN ProcessingFails(s, TranscribeQuotaError(apiError))
  ELSE IF s.retryCount + 1 >= TranscribeMaxRetries
    THEN ProcessingFails([s EXCEPT !.retryCount = @ + 1],
           TranscriptionFailedError(apiError))
  ELSE [s EXCEPT !.retryCount = @ + 1, !.tr = "delay",
                 !.delays = Append(@, TranscribeDelayMs(s.retryCount + 1))]

\* the transcription request settles: on success generateSummary is called
\* and issues its first request
transcribeAudio_post(r, res) ==
  /\ run[r].tr = "transcribe"
  /\ run' = [run EXCEPT ![r] =
       IF res.ok
         THEN [@ EXCEPT !.transcription = res.value, !.tr = "summarize",
                        !.retryCount = 0, !.n.summarize = @ + 1,
                        !.n.transcribe = 0, !.delays = << >>]
         ELSE transcribeAudio_catch(@, res.error)]
  /\ UNCHANGED << table, bucket >>

\* the backoff timer of transcribeAudio fires and the next request is issued
transcribeAudio_setTimeout(r) ==
  /\ run[r].tr = "delay"
  /\ run' = [run EXCEPT ![r] = [@ EXCEPT !.tr = "transcribe", !.n.transcribe = @ + 1]]
  /\ UNCHANGED << table, bucket >>

generateSummary_catch_throws(s, apiError) ==
  IF QuotaClass[apiError]
    THEN ProcessingFails(s, SummaryQuotaError(apiError))
  ELSE IF s.retryCount + 1 >= SummaryMaxRetries
    THEN ProcessingFails([s EXCEPT !.retryCount = @ + 1],
           TranscriptionFailedError(apiError))
  ELSE [s EXCEPT !.retryCount = @ + 1, !.tr = "summaryDelay",
                 !.summaryDelays = Append(@, SummaryDelayMs(s.retryCount + 1))]

\* the catch block of generateSummary's loop
generateSummary_catch(s, apiError) ==
  IF QuotaClass[apiError]
    THEN ProcessingFails(s, SummaryQuotaError(apiError))
  ELSE IF s.retryCount + 1 >= SummaryMaxRetries
    THEN TaskDone([s EXCEPT !.retryCount = @ + 1, !.tr = "done",
                            !.summary = SummaryFallback], "processing")
  ELSE [s EXCEPT !.retryCount = @ + 1, !.tr = "summaryDelay",
                 !.summaryDelays = Append(@, SummaryDelayMs(s.retryCount + 1))]

\* the completion request settles
generateSummary_create(r, res) ==
  /\ run[r].tr = "summarize"
  /\ run' = [run EXCEPT ![r] =
       IF res.ok
         THEN TaskDone([@ EXCEPT !.tr = "done",
                                 !.summary = OrElse(res.value, NoSummaryGenerated),
                                 !.retryCount = 0, !.n.summarize = 0,
                                 !.summaryDelays = << >>], "processing")
         ELSE generateSummary_catch(@, res.error)]
  /\ UNCHANGED << table, bucket >>

\* the backoff timer of generateSummary fires and the next request is issued
generateSummary_setTimeout(r) ==
  /\ run[r].tr = "summaryDelay"
  /\ run' = [run EXCEPT ![r] = [@ EXCEPT !.tr = "summarize", !.n.summarize = @ + 1]]
  /\ UNCHANGED << table, bucket >>

(***************************************************************************)
(* storeTranscriptionAndSummary (step 3)                                   *)
(***************************************************************************)
storeTranscriptionAndSummary_upload(r, uploadError) ==
  /\ run[r].pc = "tsUpload"
  /\ IF uploadError # Null
       THEN /\ run' = [run EXCEPT ![r] = Reject(@,
                         NewError(<< "Failed to upload transcript: " >> \o uploadError))]
            /\ UNCHANGED bucket
       ELSE /\ bucket' = bucket \cup { TranscriptFileName(run[r].body.RecordingSid) }
            /\ run' = [run EXCEPT ![r] = [@ EXCEPT !.pc = "tsUpdate", !.n.update = @ + 1]]
  /\ UNCHANGED table

\* the update settles; on success processRecording goes on to look up the
\* call, and a direct call returns { transcript_url, summary }
storeTranscriptionAndSummary_update(r, updateError) ==
  /\ run[r].pc = "tsUpdate"
  /\ IF updateError # Null
       THEN /\ run' = [run EXCEPT ![r] = Reject(@,
                         NewError(<< "Failed to update recording with transcript: " >>
                                    \o updateError))]
            /\ UNCHANGED table
       ELSE /\ table' = UpdateRows(table, run[r].body.RecordingSid,
                  getPublicUrl(TranscriptFileName(run[r].body.RecordingSid)),
                  run[r].summary)
            /\ run' = [run EXCEPT ![r] =
                 IF @.entry = ""
                   THEN [@ EXCEPT !.pc = "lookup", !.n.lookup = @ + 1]
                   ELSE [@ EXCEPT !.pc = "returned"]]
  /\ UNCHANGED bucket

(***************************************************************************)
(* processRecording, step 4: the callback                                  *)
(***************************************************************************)
\* the outcomes of twilioClient.calls(callSid).fetch()
LookupOutcomes(callSid) ==
  { [rejects |-> TRUE, from |-> ""],
    [rejects |-> FALSE, from |-> CallerOf(callSid)],
    [rejects |-> FALSE, from |-> ""] }

\* what follows `await twilioClient.calls(callSid).fetch()`: the await is
\* outside the inner try, so a rejection reaches the outer catch
AfterLookup(s, out) ==
  IF out.rejects
    THEN Reject(s, NewError(<< "The requested resource was not found" >>))
  ELSE IF out.from # ""
    THEN [s EXCEPT !.callerNumber = out.from, !.pc = "speech", !.n.speech = @ + 1,
                   !.speechText = SummaryText(s.summary)]
  ELSE Resolve(s)

processRecording_lookup(r, out) ==
  /\ run[r].pc = "lookup"
  /\ run' = [run EXCEPT ![r] = AfterLookup(@, out)]
  /\ UNCHANGED << table, bucket >>

\* generateSpeech: openai.audio.speech.create settles
generateSpeech_create(r, ok) ==
  /\ run[r].pc = "speech"
  /\ run' = [run EXCEPT ![r] =
       IF ok THEN [@ EXCEPT !.pc = "speechBuffer"]
             ELSE CatchSpeechError(@, "speech")]
  /\ UNCHANGED << table, bucket >>

\* generateSpeech: response.arrayBuffer() settles, then the upload is issued
generateSpeech_arrayBuffer(r, ok) ==
  /\ run[r].pc = "speechBuffer"
  /\ run' = [run EXCEPT ![r] =
       IF ok THEN [@ EXCEPT !.pc = "speechUpload", !.n.speechUpload = @ + 1]
             ELSE CatchSpeechError(@, "speechBuffer")]
  /\ UNCHANGED << table, bucket >>

generateSpeech_upload_ignoreError(r, uploadError) ==
  /\ run[r].pc = "speechUpload"
  /\ bucket' = IF uploadError # Null THEN bucket
               ELSE bucket \cup { SpeechFileName(run[r].body.RecordingSid) }
  /\ run' = [run EXCEPT ![r] =
       LET speechUrl == getPublicUrl(SpeechFileName(run[r].body.RecordingSid))
       IN  [@ EXCEPT !.pc = "call", !.n.call = @ + 1,
                     !.speechUrl = speechUrl,
                     !.call = [to |-> run[r].callerNumber,
                               from |-> TwilioPhoneNumber,
                               play |-> speechUrl]]]
  /\ UNCHANGED table

\* generateSpeech: the upload settles; with the public URL processRecording
\* issues twilioClient.calls.create
generateSpeech_upload(r, uploadError) ==
  /\ run[r].pc = "speechUpload"
  /\ IF uploadError # Null
       THEN /\ run' = [run EXCEPT ![r] = CatchSpeechError(@, "speechUpload")]
            /\ UNCHANGED bucket
       ELSE /\ bucket' = bucket \cup { SpeechFileName(run[r].body.RecordingSid) }
            /\ run' = [run EXCEPT ![r] =
                 LET speechUrl == getPublicUrl(SpeechFileName(run[r].body.RecordingSid))
                 IN  [@ EXCEPT !.pc = "call", !.n.call = @ + 1,
                               !.speechUrl = speechUrl,
                               !.call = [to |-> run[r].callerNumber,
                                         from |-> TwilioPhoneNumber,
                                         play |-> speechUrl]]]
  /\ UNCHANGED table

\* twilioClient.calls.create settles
processRecording_create(r, ok) ==
  /\ run[r].pc = "call"
  /\ run' = [run EXCEPT ![r] =
       IF ok THEN Resolve(@) ELSE CatchSpeechError(@, "call")]
  /\ UNCHANGED << table, bucket >>

\* a step of run r; `bodies` are the notifications that may start it
RunStep(r, bodies) ==
    \/ \E body \in bodies : handleRecordingStatus(r, body)
    \/ \E out \in FetchOutcomes : processRecording_fetch(r, out)
    \/ \E ok \in BOOLEAN : processRecording_arrayBuffer(r, ok)
    \/ \E e \in SupabaseErrors : storeRecording_upload(r, e)
    \/ \E e \in SupabaseErrors : storeRecording_insert(r, e)
    \/ \E res \in ApiOutcomes(Transcriptions) : transcribeAudio_post(r, res)
    \/ transcribeAudio_setTimeout(r)
    \/ \E res \in ApiOutcomes(Contents) : generateSummary_create(r, res)
    \/ generateSummary_setTimeout(r)
    \/ \E e \in SupabaseErrors : storeTranscriptionAndSummary_upload(r, e)
    \/ \E e \in SupabaseErrors : storeTranscriptionAndSummary_update(r, e)
    \/ \E out \in LookupOutcomes(run[r].body.CallSid) : processRecording_lookup(r, out)
    \/ \E ok \in BOOLEAN : generateSpeech_create(r, ok)
    \/ \E ok \in BOOLEAN : generateSpeech_arrayBuffer(r, ok)
    \/ \E e \in SupabaseErrors : generateSpeech_upload(r, e)
    \/ \E ok \in BOOLEAN : processRecording_create(r, ok)

Next ==
  \E r \in 1..NumRuns : RunStep(r, Bodies)

Spec == Init /\ [][Next]_vars

\* every remote call of a started run is eventually answered and every
\* timer eventually fires
FairSpec ==
  Spec /\ \A r \in 1..NumRuns : WF_vars(RunStep(r, {}))

(***************************************************************************)
(* Several runs in flight, for recordings with distinct identifiers.       *)
(***************************************************************************)
\* the number of runs in flight together
NumConcurrent == 2

\* the well-formed notifications for recordings no other run handles
FreshBodies(r) ==
  { b \in WellFormedBodies :
      \A q \in (1..NumConcurrent) \ {r} : run[q].body.RecordingSid # b.RecordingSid }

InitConcurrent ==
  /\ run = [r \in 1..NumConcurrent |-> InitRun]
  /\ table = << >>
  /\ bucket = {}

NextConcurrent ==
  \E r \in 1..NumConcurrent : RunStep(r, FreshBodies(r))

SpecConcurrent == InitConcurrent /\ [][NextConcurrent]_vars

(***************************************************************************)
(* The exported functions of the two services, called directly: run[c] is  *)
(* then the frame of the c-th call and `entry` names the function.         *)
(***************************************************************************)
\* the number of direct calls
NumCalls == 3

\* the recordingSid argument of a direct call of storeTranscriptionAndSummary
RecordingSid ==
  "RE1"

\* the summary argument of a direct call of storeTranscriptionAndSummary
Summaries ==
  { << "Quick call about hello world." >>, SummaryFallback }

\* storeRecording(recording, metadata), with the metadata processRecording
\* builds for `body`: the upload is issued
storeRecording(c, body) ==
  /\ run[c].pc = "idle"
  /\ c > 1 => run[c - 1].pc # "idle"
  /\ run' = [run EXCEPT ![c] =
       [@ EXCEPT !.entry = "storeRecording", !.pc = "storeRecording",
                 !.body = body, !.st = "upload", !.n.upload = @ + 1]]
  /\ UNCHANGED << table, bucket >>

\* storeTranscriptionAndSummary(recordingSid, transcription, summary): the
\* upload of the transcript is issued
storeTranscriptionAndSummary(c, recordingSid, transcription, summary) ==
  /\ run[c].pc = "idle"
  /\ c > 1 => run[c - 1].pc # "idle"
  /\ run' = [run EXCEPT ![c] =
       [@ EXCEPT !.entry = "storeTranscriptionAndSummary", !.pc = "tsUpload",
                 !.body.RecordingSid = recordingSid,
                 !.transcription = transcription, !.summary = summary,
                 !.n.tsUpload = @ + 1]]
  /\ UNCHANGED << table, bucket >>

\* checkApiQuota(): the probe request is issued
checkApiQuota(c) ==
  /\ run[c].pc = "idle"
  /\ c > 1 => run[c - 1].pc # "idle"
  /\ run' = [run EXCEPT ![c] =
       [@ EXCEPT !.entry = "checkApiQuota", !.pc = "quotaProbe"]]
  /\ UNCHANGED << table, bucket >>

checkApiQuota_catch_failClosed(apiError) == FALSE

\* the catch block of checkApiQuota: the value it returns
checkApiQuota_catch(apiError) ==
  IF QuotaClass[apiError] THEN FALSE ELSE TRUE

\* the probe request settles and checkApiQuota returns
checkApiQuota_create(c, res) ==
  /\ run[c].pc = "quotaProbe"
  /\ run' = [run EXCEPT ![c] =
       [@ EXCEPT !.pc = "returned",
                 !.quotaAvailable = IF res.ok THEN TRUE
                                    ELSE checkApiQuota_catch(res.error)]]
  /\ UNCHANGED << table, bucket >>

InitServices ==
  /\ run = [c \in 1..NumCalls |-> InitRun]
  /\ table = << >>
  /\ bucket = {}

NextServices ==
  \E c \in 1..NumCalls :
    \/ \E body \in WellFormedBodies : storeRecording(c, body)
    \/ \E e \in SupabaseErrors : storeRecording_upload(c, e)
    \/ \E e \in SupabaseErrors : storeRecording_insert(c, e)
    \/ \E t \in Transcriptions, s \in Summaries :
          storeTranscriptionAndSummary(c, RecordingSid, t, s)
    \/ \E e \in SupabaseErrors : storeTranscriptionAndSummary_upload(c, e)
    \/ \E e \in SupabaseErrors : storeTranscriptionAndSummary_update(c, e)
    \/ checkApiQuota(c)
    \/ \E res \in ApiOutcomes(Contents) : checkApiQuota_create(c, res)

SpecServices == InitServices /\ [][NextServices]_vars

(***************************************************************************)
(* Notions the properties share.                                           *)
(***************************************************************************)
\* the rows of the table that carry the recording identifier sid
RowsOf(sid) == { i \in DOMAIN table : table[i].recording_sid = sid }

\* the recording identifier of run r
SidOf(r) == run[r].body.RecordingSid

\* no other notification carries the recording identifier of run r
OnlyRunFor(r) == \A q \in Runs \ {r} : SidOf(q) # SidOf(r)

\* the error the adapter throws for a quota error of either request
IsCombinedQuotaError(error) == error = NewError(MsgQuotaCombined)

\* the error transcribeAudio throws when its attempts are exhausted
IsTerminalTranscriptionError(error) ==
  /\ Len(error.message) >= Len(PrefixTranscriptionFailed)
  /\ SubSeq(error.message, 1, Len(PrefixTranscriptionFailed)) = PrefixTranscriptionFailed

\* the errors of the quota/billing class: code or type insufficient_quota,
\* status 429, or a message with "quota", "billing" or "rate limit"
QuotaClassErrors ==
  { ErrQuotaCode, ErrQuotaType, Err429, ErrRateLimit, ErrQuotaMsg, ErrBillingMsg }

FailedWith(e) == [ok |-> FALSE, value |-> EmptyString, error |-> e]

(***************************************************************************)
(* C1                                                                      *)
(***************************************************************************)
\* C1 (as claimed): when processRecording settles for a recording that no
\* other run handles, either it resolves and a Metadata Record with a
\* non-empty audio_url is committed, or it throws and no Metadata Record for
\* the recording exists at that moment.
C1_AllOrNothing ==
  [][\A r \in Runs :
       (run[r].pc \notin {"resolved", "rejected"} /\ OnlyRunFor(r)')
         => /\ run'[r].pc = "resolved"
                 => \E i \in RowsOf(SidOf(r))' : Truthy(table'[i].audio_url)
            /\ run'[r].pc = "rejected" => RowsOf(SidOf(r))' = {}]_vars

(***************************************************************************)
(* C2                                                                      *)
(***************************************************************************)
\* C2 (as claimed): once the Metadata Record update of step 3 has succeeded
\* (the lookup of the caller has been issued), processRecording never
\* rejects, whatever fails in step 4.
C2_Step4NeverFails ==
  \A r \in Runs : run[r].n.lookup > 0 => run[r].pc # "rejected"

(***************************************************************************)
(* C3                                                                      *)
(***************************************************************************)
\* C3: in the step in which the outbound-call placement request throws,
\* processRecording resolves (the handler answers 200), the table is left
\* unchanged, and the row of the recording still has the transcript_url and
\* the audio_summary written in step 3.
C3_CallFailureSwallowed ==
  [][\A r \in Runs :
       (run[r].pc = "call" /\ run'[r].swallowed = "call")
         => /\ run'[r].pc = "resolved"
            /\ run'[r].status = 200
            /\ table' = table
            /\ \E i \in RowsOf(SidOf(r)) :
                 /\ table'[i].transcript_url
                      = getPublicUrl(TranscriptFileName(SidOf(r)))
                 /\ Truthy(table'[i].audio_summary)]_vars

\* a run whose call placement failed has resolved
C3_Witness ==
  \E r \in Runs : run[r].swallowed = "call" /\ run[r].pc = "resolved"

(***************************************************************************)
(* C4                                                                      *)
(***************************************************************************)
\* C4: a run whose download got a non-2xx response has rejected with the
\* download error and has issued no request but the download: no upload, no
\* transcription, no insert or update, no lookup, no speech, no call.
C4_DownloadFailure ==
  \A r \in Runs :
    (run[r].fetched.status # 0
       /\ ~(run[r].fetched.status >= 200 /\ run[r].fetched.status <= 299))
      => /\ run[r].pc = "rejected"
         /\ run[r].status = 500
         /\ run[r].error
              = NewError(<< "Failed to download recording: ", run[r].fetched.text >>)
         /\ run[r].st = "none"
         /\ run[r].tr = "none"
         /\ run[r].n = [NoCounts EXCEPT !.fetch = 1]

\* a run has rejected on a 404
C4_Witness ==
  \E r \in Runs : run[r].fetched.status = 404 /\ run[r].pc = "rejected"

(***************************************************************************)
(* C5                                                                      *)
(***************************************************************************)
\* C5: within a run, a summarization request exists only once the
\* transcription has been returned; the transcript upload and the update of
\* storeTranscriptionAndSummary are issued only when storeRecording and
\* transcribe+summarize have both completed; the lookup is issued only when
\* the update has succeeded, and the outbound call only after that.
C5_Ordering ==
  \A r \in Runs :
    LET s == run[r] IN
    /\ (s.n.summarize > 0 \/ s.tr \in {"summarize", "summaryDelay", "done"})
         => s.transcription \in Transcriptions
    /\ s.n.tsUpload > 0 => (s.st = "done" /\ s.tr = "done")
    /\ s.n.update > 0 => s.n.tsUpload > 0
    /\ s.n.lookup > 0
         => /\ s.n.update > 0
            /\ s.pc \notin {"join", "tsUpload", "tsUpdate"}
            /\ \E i \in RowsOf(SidOf(r)) :
                 table[i].transcript_url = getPublicUrl(TranscriptFileName(SidOf(r)))
    /\ s.n.call > 0 => s.n.lookup > 0

\* a run has placed its call, and in it transcribe+summarize completed
\* before storeRecording did
C5_Witness ==
  \E r \in Runs : run[r].n.call = 1 /\ run[r].firstDone = "processing"

(***************************************************************************)
(* C6                                                                      *)
(***************************************************************************)
\* C6: while transcribeAudio retries, every request it has issued but the
\* one in flight has failed (requests = retryCount + 1 <= 5); after the 5th
\* failure it has thrown the terminal error, with exactly 5 requests issued,
\* no transcription returned and no summarization request.
C6_TranscribeRetryBound ==
  \A r \in Runs :
    LET s == run[r] IN
    /\ s.n.transcribe <= 5
    /\ s.tr = "transcribe" => (s.n.transcribe = s.retryCount + 1 /\ s.retryCount < 5)
    /\ s.tr = "delay" => (s.n.transcribe = s.retryCount /\ s.retryCount < 5)
    /\ (s.n.transcribe = 5 /\ s.retryCount = 5)
         => (s.tr = "failed" /\ IsTerminalTranscriptionError(s.procError))
    /\ (s.tr = "failed" /\ IsTerminalTranscriptionError(s.procError))
         => /\ s.n.transcribe = 5
            /\ s.transcription = EmptyString
            /\ s.n.summarize = 0

\* a run whose 5 transcription requests all failed
C6_Witness ==
  \E r \in Runs :
    /\ run[r].tr = "failed"
    /\ IsTerminalTranscriptionError(run[r].procError)
    /\ run[r].n.transcribe = 5

(***************************************************************************)
(* C7                                                                      *)
(***************************************************************************)
\* C7: while generateSummary retries, requests = retryCount + 1 <= 3; after
\* the 3rd failure it has returned the fallback string as its result (the
\* task is done, not failed), with exactly 3 requests issued.
C7_SummaryFallback ==
  \A r \in Runs :
    LET s == run[r] IN
    /\ s.n.summarize <= 3
    /\ s.tr = "summarize" => (s.n.summarize = s.retryCount + 1 /\ s.retryCount < 3)
    /\ s.tr = "summaryDelay" => (s.n.summarize = s.retryCount /\ s.retryCount < 3)
    /\ (s.n.summarize = 3 /\ s.retryCount = 3)
         => (s.tr = "done" /\ s.summary = SummaryFallback)
    /\ s.summary = SummaryFallback => (s.tr = "done" /\ s.n.summarize = 3)

\* a run whose 3 completion requests all failed
C7_Witness ==
  \E r \in Runs : run[r].summary = SummaryFallback /\ run[r].n.summarize = 3

(***************************************************************************)
(* C8                                                                      *)
(***************************************************************************)
\* C8: the step in which a transcription or completion request fails with
\* an error of the quota/billing class ends the task with the quota error:
\* no backoff delay is started and no request is issued, in that step or
\* later.
C8_QuotaNotRetried ==
  [][\A r \in Runs :
       /\ \A e \in QuotaClassErrors :
            (transcribeAudio_post(r, FailedWith(e))
               \/ generateSummary_create(r, FailedWith(e)))
              => /\ run'[r].tr = "failed"
                 /\ IsCombinedQuotaError(run'[r].procError)
                 /\ run'[r].n = run[r].n
                 /\ run'[r].delays = run[r].delays
                 /\ run'[r].summaryDelays = run[r].summaryDelays
       /\ run[r].tr = "failed"
            => /\ run'[r].tr = "failed"
               /\ run'[r].n.transcribe = run[r].n.transcribe
               /\ run'[r].n.summarize = run[r].n.summarize
               /\ run'[r].delays = run[r].delays
               /\ run'[r].summaryDelays = run[r].summaryDelays]_vars

\* a quota error has ended transcribeAudio at its 3rd request, after two
\* transient failures and their two delays
C8_Witness ==
  \E r \in Runs :
    /\ run[r].tr = "failed" /\ IsCombinedQuotaError(run[r].procError)
    /\ run[r].n.transcribe = 3 /\ Len(run[r].delays) = 2

(***************************************************************************)
(* C9                                                                      *)
(***************************************************************************)
\* C9: a run that resolved with a caller number found and no error in the
\* callback step, for a recording no other run handles, leaves exactly one
\* row for the recording identifier, with the given recording_sid and
\* call_sid, a non-empty audio_url and transcript_url and audio_summary equal
\* to the summary generateSummary returned; it has issued exactly one
\* outbound-call request, to the number of the call identifier.
C9_EndToEnd ==
  \A r \in Runs :
    LET s == run[r] IN
    (s.pc = "resolved" /\ s.callerNumber # "" /\ s.swallowed = "" /\ OnlyRunFor(r))
      => /\ Cardinality(RowsOf(SidOf(r))) = 1
         /\ \A i \in RowsOf(SidOf(r)) :
              /\ table[i].call_sid = s.body.CallSid
              /\ Truthy(table[i].audio_url)
              /\ Truthy(table[i].transcript_url)
              /\ table[i].audio_summary = s.summary
         /\ s.n.call = 1
         /\ s.call.to = CallerOf(s.body.CallSid)

\* a run has ended with its call placed and the summary of the completion
\* request in its row
C9_Witness ==
  \E r \in Runs :
    /\ run[r].pc = "resolved" /\ run[r].swallowed = "" /\ run[r].n.call = 1
    /\ OnlyRunFor(r)
    /\ run[r].summary \in Contents

(***************************************************************************)
(* C10                                                                     *)
(***************************************************************************)
\* C10: the step in which the download, its body, the store of the raw
\* audio, transcribe+summarize, the transcript upload or the update fails
\* makes processRecording reject; a rejected run stays rejected and issues
\* no request of a later step: none of step 3 or 4 once step 1 or 2 failed,
\* and never a speech request or an outbound call.
C10_FailurePropagates ==
  [][\A r \in Runs :
       LET s == run[r]
           t == run'[r]
       IN
       /\ ((\E out \in FetchOutcomes :
              (out.rejects \/ ~(out.status >= 200 /\ out.status <= 299))
                /\ processRecording_fetch(r, out))
           \/ processRecording_arrayBuffer(r, FALSE))
            => (t.pc = "rejected" /\ t.st = "none" /\ t.tr = "none")
       /\ (t.st = "failed" \/ t.tr = "failed")
            => (t.pc = "rejected" /\ t.n.tsUpload = 0 /\ t.n.update = 0)
       /\ (storeTranscriptionAndSummary_upload(r, << "fetch failed" >>)
           \/ storeTranscriptionAndSummary_update(r, << "fetch failed" >>))
            => t.pc = "rejected"
       /\ t.pc = "rejected"
            => /\ t.status = 500
               /\ t.n.speech = 0
               /\ t.n.speechUpload = 0
               /\ t.n.call = 0
               /\ t.error # NewError(<< "The requested resource was not found" >>)
                    => t.n.lookup = 0
       /\ s.pc = "rejected"
            => /\ t.pc = "rejected"
               /\ t.n.tsUpload = s.n.tsUpload
               /\ t.n.update = s.n.update
               /\ t.n.lookup = s.n.lookup]_vars

\* a run has rejected because the update of step 3 failed
C10_Witness ==
  \E r \in Runs :
    run[r].pc = "rejected" /\ run[r].n.update = 1 /\ run[r].n.lookup = 0

(***************************************************************************)
(* C11                                                                     *)
(***************************************************************************)
\* C11: a request gets one response, which never changes: 400, with no
\* request issued by the orchestrator then or later, when RecordingUrl,
\* RecordingSid or CallSid is absent; 200 exactly when processRecording has
\* resolved; 500 exactly when it has rejected; none while it is running.
C11_OneResponse ==
  [][\A r \in Runs :
       LET s == run[r]
           t == run'[r]
       IN
       /\ s.status # 0 => t.status = s.status
       /\ (s.pc = "idle" /\ t.pc # "idle"
             /\ (t.body.RecordingUrl = "" \/ t.body.RecordingSid = ""
                   \/ t.body.CallSid = ""))
            => t.status = 400
       /\ t.status = 400
            => (t.pc = "invalid" /\ t.n = NoCounts /\ t.st = "none" /\ t.tr = "none")
       /\ t.status = 200 <=> t.pc = "resolved"
       /\ t.status = 500 <=> t.pc = "rejected"
       /\ t.pc \in {"idle", "invalid", "resolved", "rejected"} \/ t.status = 0]_vars

\* a request without CallSid has been answered 400
C11_Witness ==
  \E r \in Runs :
    /\ run[r].status = 400
    /\ run[r].body.CallSid = "" /\ run[r].body.RecordingSid # ""

(***************************************************************************)
(* C14                                                                     *)
(***************************************************************************)
\* C14: every Metadata Record has audio_url set; a record is inserted by
\* storeRecording with transcript_url and audio_summary unset (null), and
\* these two fields change only in the update step of
\* storeTranscriptionAndSummary for the record's recording identifier.
C14_RecordShape ==
  [][/\ \A i \in DOMAIN table' : Truthy(table'[i].audio_url)
     /\ \A i \in DOMAIN table' \ DOMAIN table :
          /\ table'[i].transcript_url = Null
          /\ table'[i].audio_summary = Null
          /\ \E r \in Runs : storeRecording_insert(r, Null)
     /\ \A i \in DOMAIN table \cap DOMAIN table' :
          (\/ table'[i].transcript_url # table[i].transcript_url
           \/ table'[i].audio_summary # table[i].audio_summary)
            => \E r \in Runs :
                 /\ storeTranscriptionAndSummary_update(r, Null)
                 /\ SidOf(r) = table[i].recording_sid]_vars

\* a record that was inserted with the two fields unset now has them set
C14_Witness ==
  \E i \in DOMAIN table :
    /\ Truthy(table[i].audio_url)
    /\ Truthy(table[i].transcript_url)
    /\ Truthy(table[i].audio_summary)

(***************************************************************************)
(* C15                                                                     *)
(***************************************************************************)
\* C15: a run issues at most one insert, after its raw-audio upload, and at
\* most one update, after its insert has succeeded; a recording identifier
\* processed by one run has at most one Metadata Record; no step removes a
\* record or changes its identifier.
C15_Lifecycle ==
  [][/\ Len(table') >= Len(table)
     /\ \A i \in DOMAIN table : table'[i].recording_sid = table[i].recording_sid
     /\ \A r \in Runs :
          LET s == run[r]
              t == run'[r]
              sid == t.body.RecordingSid
          IN
          /\ t.n.insert <= 1
          /\ t.n.update <= 1
          /\ t.n.insert > s.n.insert => RecordingFileName(sid) \in bucket'
          /\ t.n.update > s.n.update
               => /\ s.n.insert = 1 /\ s.st = "done"
                  /\ \E i \in DOMAIN table : table[i].recording_sid = sid
          /\ (\A q \in Runs \ {r} : run'[q].body.RecordingSid # sid)
               => Cardinality({ i \in DOMAIN table' : table'[i].recording_sid = sid }) <= 1]_vars

\* a run has inserted its record and then updated it: one record, both
\* requests issued once
C15_Witness ==
  \E r \in Runs :
    /\ run[r].n.insert = 1 /\ run[r].n.update = 1
    /\ run[r].pc \in {"lookup", "resolved"}
    /\ Cardinality(RowsOf(SidOf(r))) = 1
    /\ \A i \in RowsOf(SidOf(r)) : Truthy(table[i].transcript_url)

(***************************************************************************)
(* C17                                                                     *)
(***************************************************************************)
\* C17: the adapter's processRecording fails with the combined quota error
\* when the transcription or the completion request fails with an error of
\* the quota/billing class; when the last transcription attempt fails with
\* another error it fails with transcribeAudio's "failed after 5 attempts"
\* error, unchanged; and once transcription has failed no summarization
\* request is issued.
C17_AdapterErrors ==
  [][\A r \in Runs :
       LET s == run[r]
           t == run'[r]
       IN
       /\ \A e \in ApiErrors :
            /\ transcribeAudio_post(r, FailedWith(e))
                 => /\ t.n.summarize = 0
                    /\ t.tr \in {"failed", "delay"}
                    /\ e \in QuotaClassErrors
                         => (t.tr = "failed" /\ t.procError = NewError(MsgQuotaCombined))
                    /\ (e \notin QuotaClassErrors /\ s.n.transcribe = TranscribeMaxRetries)
                         => /\ t.tr = "failed"
                            /\ t.procError =
                                 NewError(PrefixTranscriptionFailed \o << "5" >>
                                            \o SuffixAttempts \o e.message)
            /\ (generateSummary_create(r, FailedWith(e)) /\ e \in QuotaClassErrors)
                 => (t.tr = "failed" /\ t.procError = NewError(MsgQuotaCombined))
       /\ (s.tr = "failed" /\ s.n.summarize = 0)
            => (t.tr = "failed" /\ t.n.summarize = 0 /\ t.procError = s.procError)]_vars

\* the fifth transcription request has failed with a timeout: the adapter
\* has thrown the terminal error and no summarization request was issued
C17_Witness ==
  \E r \in Runs :
    /\ run[r].tr = "failed"
    /\ run[r].n.transcribe = TranscribeMaxRetries
    /\ run[r].n.summarize = 0
    /\ run[r].procError = TranscriptionFailedError(ErrTimeout)

(***************************************************************************)
(* C18                                                                     *)
(***************************************************************************)
\* C18 (as claimed): the k-th backoff delay of transcribeAudio is
\* 1s * 2^(k-1) capped at 30s, that of generateSummary 1s * 2^(k-1) capped
\* at 10s: the delay before the first retry is 1s; there are at most 4
\* delays in transcribeAudio and 2 in generateSummary, none before the first
\* request and none after the last failed one.
C18_BackoffDelays ==
  \A r \in Runs :
    /\ Len(run[r].delays) <= TranscribeMaxRetries - 1
    /\ Len(run[r].summaryDelays) <= SummaryMaxRetries - 1
    /\ run[r].n.transcribe <= 1 => run[r].delays = << >>
    /\ run[r].n.summarize <= 1 => run[r].summaryDelays = << >>
    /\ \A k \in DOMAIN run[r].delays :
         run[r].delays[k] = Min(TranscribeBaseDelay * 2^(k - 1), TranscribeDelayCap)
    /\ \A k \in DOMAIN run[r].summaryDelays :
         run[r].summaryDelays[k] = Min(SummaryBaseDelay * 2^(k - 1), SummaryDelayCap)

(***************************************************************************)
(* C12                                                                     *)
(***************************************************************************)
\* C12 (as claimed): when the update request of
\* storeTranscriptionAndSummary settles and the table does not hold exactly
\* one record with the call's recording identifier, the call fails: it does
\* not return.
C12_UpdateExactlyOne ==
  [][\A c \in Runs :
       (/\ run[c].entry = "storeTranscriptionAndSummary"
        /\ run[c].pc = "tsUpdate"
        /\ run'[c].pc # "tsUpdate"
        /\ Cardinality(RowsOf(SidOf(c))) # 1)
         => run'[c].pc = "rejected"]_vars

(***************************************************************************)
(* C13                                                                     *)
(***************************************************************************)
\* C13: a call of storeTranscriptionAndSummary that returns inserts no
\* record: the table keeps its length, the records of the call's recording
\* identifier take the call's transcript URL and summary, whatever an
\* earlier call wrote, and every other field and record is unchanged; a
\* step of the call that does not return leaves the table as it is.
C13_UpdateNotInsert ==
  [][\A c \in Runs :
       (run[c].entry = "storeTranscriptionAndSummary" /\ run'[c] # run[c])
         => IF run'[c].pc = "returned"
              THEN /\ Len(table') = Len(table)
                   /\ \A i \in DOMAIN table :
                        IF table[i].recording_sid = SidOf(c)
                          THEN table'[i] =
                                 [table[i] EXCEPT
                                    !.transcript_url =
                                       getPublicUrl(TranscriptFileName(SidOf(c))),
                                    !.audio_summary = run[c].summary]
                          ELSE table'[i] = table[i]
              ELSE table' = table]_vars

\* storeRecording has inserted the record of a recording and two calls of
\* storeTranscriptionAndSummary for it, with different summaries, have
\* returned: there is one record, with the summary of the later call
C13_Witness ==
  /\ run[1].entry = "storeRecording" /\ run[1].st = "done"
  /\ \A c \in {2, 3} :
       /\ run[c].entry = "storeTranscriptionAndSummary"
       /\ run[c].pc = "returned"
       /\ SidOf(c) = SidOf(1)
  /\ run[2].summary # run[3].summary
  /\ Cardinality(RowsOf(SidOf(1))) = 1
  /\ \A i \in RowsOf(SidOf(1)) :
       /\ table[i].audio_summary = run[3].summary
       /\ table[i].transcript_url = getPublicUrl(TranscriptFileName(SidOf(1)))

(***************************************************************************)
(* C19                                                                     *)
(***************************************************************************)
\* C19: when its probe request settles checkApiQuota returns, whatever the
\* outcome: false when the probe failed with an error of the quota/billing
\* class, true when the probe succeeded or failed with any other error; it
\* never throws.
C19_CheckApiQuota ==
  [][\A c \in Runs :
       /\ (run[c].pc = "quotaProbe" /\ run'[c] # run[c])
            => \A res \in ApiOutcomes(Contents) :
                 checkApiQuota_create(c, res)
                   => /\ run'[c].pc = "returned"
                      /\ run'[c].quotaAvailable
                           = ~(~res.ok /\ res.error \in QuotaClassErrors)
       /\ run[c].pc = "quotaProbe" => run'[c].pc \in {"quotaProbe", "returned"}
       /\ run'[c].entry = "checkApiQuota" => run'[c].pc # "rejected"]_vars

\* one call of checkApiQuota has returned false and another has returned
\* true
C19_Witness ==
  \E c, d \in Runs :
    /\ run[c].entry = "checkApiQuota" /\ run[d].entry = "checkApiQuota"
    /\ run[c].pc = "returned" /\ run[d].pc = "returned"
    /\ ~run[c].quotaAvailable /\ run[d].quotaAvailable

(***************************************************************************)
(* C16                                                                     *)
(***************************************************************************)
\* the records of the recording identifier sid, in table order
RecordsOf(rows, sid) ==
  SelectSeq(rows, LAMBDA row : row.recording_sid = sid)

\* the other records
RecordsNotOf(rows, sid) ==
  SelectSeq(rows, LAMBDA row : row.recording_sid # sid)

\* the storage objects named after the recording identifier sid
ObjectsOf(sid) ==
  { RecordingFileName(sid), TranscriptFileName(sid), SpeechFileName(sid) }

\* the records run r leaves when it is the only run: none before its insert
\* has succeeded, then the inserted record, then that record with the
\* transcript URL and the summary of the run
SoloRecords(s) ==
  LET sid == s.body.RecordingSid
      inserted == InsertedRow(Metadata(s.body), getPublicUrl(RecordingFileName(sid)))
  IN  IF s.st # "done" THEN << >>
      ELSE IF s.n.lookup = 0 THEN << inserted >>
      ELSE << [inserted EXCEPT
                 !.transcript_url = getPublicUrl(TranscriptFileName(sid)),
                 !.audio_summary = s.summary] >>

\* C16: with runs for distinct recording identifiers interleaving, a step
\* of a run changes no record and adds no storage object of another
\* recording identifier, and after every step the records of each run's
\* recording identifier are the ones the run produces alone.
C16_RunsIsolated ==
  [][\A r \in Runs :
       LET sid == run'[r].body.RecordingSid IN
       /\ run'[r] # run[r]
            => /\ RecordsNotOf(table', sid) = RecordsNotOf(table, sid)
               /\ bucket' \ bucket \subseteq ObjectsOf(sid)
               /\ bucket \subseteq bucket'
       /\ run'[r].pc # "idle"
            => RecordsOf(table', sid) = SoloRecords(run'[r])]_vars

\* run 1 has inserted and updated its record while run 2, whose record is
\* inserted, still waits for its own update: the record of run 2 has no
\* transcript yet
C16_Witness ==
  \E r, q \in Runs :
    /\ SidOf(r) # SidOf(q)
    /\ run[r].pc = "resolved"
    /\ run[q].pc = "tsUpdate"
    /\ Len(table) = 2
    /\ \A i \in RowsOf(SidOf(r)) : table[i].audio_summary = run[r].summary
    /\ \A i \in RowsOf(SidOf(q)) : table[i].audio_summary = Null

(***************************************************************************)
(* C20                                                                     *)
(***************************************************************************)
\* C20: when every remote call is eventually answered, a run whose
\* processRecording was called eventually resolves or rejects; at every
\* moment a run has issued at most 5 transcription requests, at most 3
\* summarization requests and at most one request of every other kind.
C20_Terminates ==
  /\ \A r \in 1..NumRuns :
       (run[r].pc \notin {"idle", "invalid"})
         ~> (run[r].pc \in {"resolved", "rejected"})
  /\ [](\A r \in 1..NumRuns :
          /\ run[r].n.transcribe <= TranscribeMaxRetries
          /\ run[r].n.summarize <= SummaryMaxRetries
          /\ \A k \in DOMAIN NoCounts \ {"transcribe", "summarize"} :
               run[r].n[k] <= 1)

\* a run has rejected after five transcription requests and four delays,
\* with storeRecording settled as well
C20_Witness ==
  \E r \in Runs :
    /\ run[r].pc = "rejected"
    /\ run[r].n.transcribe = TranscribeMaxRetries
    /\ Len(run[r].delays) = TranscribeMaxRetries - 1
    /\ run[r].st \in {"done", "failed"}

(***************************************************************************)
(* C21                                                                     *)
(***************************************************************************)
\* C21 (as claimed): once processRecording has rejected, the run issues no
\* further storage upload, Metadata Record insert or update request, and no
\* step of the run changes the table.
C21_ShortCircuit ==
  [][\A r \in Runs :
       run[r].pc = "rejected"
         => /\ run'[r].n.upload = run[r].n.upload
            /\ run'[r].n.insert = run[r].n.insert
            /\ run'[r].n.tsUpload = run[r].n.tsUpload
            /\ run'[r].n.update = run[r].n.update
            /\ run'[r].n.speechUpload = run[r].n.speechUpload
            /\ run'[r] # run[r] => table' = table]_vars

(***************************************************************************)
(* C22                                                                     *)
(***************************************************************************)
\* the placeholder generateSummary returns when its attempts are exhausted
Placeholder ==
  << "Error generating summary. Please try again later." >>

\* C22: the step in which the third completion request fails with an error
\* outside the quota/billing class ends the adapter's task with the
\* placeholder as summary and does not reject the run: with storeRecording
\* done the run goes on to step 3; a run with that summary whose update has
\* succeeded has the placeholder as audio_summary of its record, and the
\* text it hands to generateSpeech is built from the placeholder.
C22_SummaryFailureNonFatal ==
  [][\A r \in Runs :
       LET s == run[r]
           t == run'[r]
       IN
       /\ \A e \in ApiErrors \ QuotaClassErrors :
            (generateSummary_create(r, FailedWith(e))
               /\ s.n.summarize = SummaryMaxRetries)
              => /\ t.tr = "done"
                 /\ t.summary = Placeholder
                 /\ t.pc = IF s.pc = "join" /\ s.st = "done" THEN "tsUpload" ELSE s.pc
       /\ (t.summary = Placeholder /\ t.n.lookup = 1
             /\ \A q \in Runs \ {r} :
                  run'[q].body.RecordingSid # t.body.RecordingSid)
            => \A i \in DOMAIN table' :
                 table'[i].recording_sid = t.body.RecordingSid
                   => table'[i].audio_summary = Placeholder
       /\ (t.summary = Placeholder /\ t.n.speech = 1)
            => t.speechText =
                 << "Hello, here is a summary of your recent call. " >>
                   \o Placeholder
                   \o << " Thank you for using our service. Goodbye." >>]_vars

\* three completion requests have failed, the run has resolved, its record
\* carries the placeholder and the callback was placed
C22_Witness ==
  \E r \in Runs :
    /\ run[r].pc = "resolved"
    /\ run[r].n.summarize = SummaryMaxRetries
    /\ run[r].summary = Placeholder
    /\ run[r].n.call = 1 /\ run[r].swallowed = ""
    /\ \E i \in RowsOf(SidOf(r)) : table[i].audio_summary = Placeholder

(***************************************************************************)
(* C23                                                                     *)
(***************************************************************************)
\* the public URL of the raw-audio object of the recording identifier sid
RawAudioUrl(sid) ==
  << "https://supabase/storage/v1/object/public/recordings/", sid, ".mp3" >>

\* C23: a record enters the table only in a step of storeRecording's insert
\* and with the object `{id}.mp3` in the bucket; its audio_url is the
\* public URL of that object, not the RecordingUrl of the notification; the
\* step in which the upload fails inserts nothing, issues no insert and
\* fails storeRecording for good; every record of the table has its
\* `{id}.mp3` in the bucket.
C23_InsertAfterUpload ==
  [][/\ \A i \in DOMAIN table' \ DOMAIN table :
          \E r \in Runs :
            /\ run[r].st = "insert" /\ run'[r].st = "done"
            /\ table'[i].recording_sid = SidOf(r)
            /\ << SidOf(r), ".mp3" >> \in bucket
            /\ table'[i].audio_url = RawAudioUrl(SidOf(r))
            /\ table'[i].audio_url # << run[r].body.RecordingUrl >>
     /\ \A i \in DOMAIN table' : << table'[i].recording_sid, ".mp3" >> \in bucket'
     /\ \A r \in Runs :
          /\ (run[r].st = "upload" /\ run'[r].st \notin {"upload", "insert"})
               => /\ run'[r].st = "failed"
                  /\ run'[r].n.insert = 0
                  /\ table' = table /\ bucket' = bucket
                  /\ run[r].pc = "join" => run'[r].pc = "rejected"
          /\ run[r].st = "failed"
               => (run'[r].st = "failed" /\ run'[r].n.insert = run[r].n.insert)]_vars

\* a record is in the table with the public URL of its raw-audio object,
\* and the object is in the bucket
C23_Witness ==
  \E r \in Runs :
    /\ run[r].st = "done"
    /\ << SidOf(r), ".mp3" >> \in bucket
    /\ \E i \in RowsOf(SidOf(r)) : table[i].audio_url = RawAudioUrl(SidOf(r))

(***************************************************************************)
(* C24                                                                     *)
(***************************************************************************)
\* C24 (as claimed): the duration of every record of the table is a
\* number, not NaN, and is not negative.
C24_DurationNonNegative ==
  \A i \in DOMAIN table :
    /\ ~table[i].duration.nan
    /\ table[i].duration.value >= 0

(***************************************************************************)
(* C25                                                                     *)
(***************************************************************************)
\* C25: a run issues at most one outbound-call request; it issues it in
\* the step in which the upload of the speech object succeeds, to a
\* non-empty caller number and playing the public URL of that object, which
\* is in the bucket; a run whose speech synthesis, speech download or
\* speech upload failed, or whose caller number is empty, issues none.
C25_CallAfterSpeech ==
  [][\A r \in Runs :
       LET s == run[r]
           t == run'[r]
           sid == t.body.RecordingSid
       IN
       /\ t.n.call <= 1
       /\ t.n.call > s.n.call
            => /\ s.pc = "speechUpload"
               /\ << sid, "_summary_speech.mp3" >> \in bucket'
               /\ t.call.play =
                    << "https://supabase/storage/v1/object/public/recordings/",
                       sid, "_summary_speech.mp3" >>
               /\ t.call.to # "" /\ t.call.to = t.callerNumber
       /\ t.swallowed \in {"speech", "speechBuffer", "speechUpload"} => t.n.call = 0
       /\ t.callerNumber = "" => (t.n.call = 0 /\ t.n.speech = 0)
       /\ (s.pc = "lookup" /\ t.pc = "resolved") => t.callerNumber = ""
       /\ s.pc \in {"resolved", "rejected"} => t.n.call = s.n.call]_vars

\* the upload of the speech object has failed: the run has resolved
\* without an outbound-call request
C25_Witness ==
  \E r \in Runs :
    /\ run[r].pc = "resolved"
    /\ run[r].swallowed = "speechUpload"
    /\ run[r].callerNumber # ""
    /\ run[r].n.speechUpload = 1
    /\ run[r].n.call = 0

=============================================================================
